---------------------------- MODULE Spec2Model ----------------------------
(***************************************************************************)
(* A model of spacy/pipeline/simple_ner.py: the SimpleNER component, its   *)
(* label registry (the "labels" attribute of the model's "biluo" node),    *)
(* the tag vocabulary, label discovery and begin_training (Spec), the tag  *)
(* scheme (SpecTags), and set_annotations, get_loss and update (SpecBatch).*)
(*                                                                         *)
(* Strings are sequences of one-character strings, so that formatting      *)
(* (f"B-{label}"), parsing (tag.split('-', 1)) and lexicographic sorting   *)
(* are computed rather than assumed.                                       *)
(***************************************************************************)
EXTENDS Integers, Sequences, FiniteSets, TLC

VARIABLES
    corpus,      \* what get_examples() yields: a sequence of examples, each a sequence of NER tags
    labels,      \* model.get_ref("biluo").attrs["labels"]: None or a list of labels
    dims,        \* the "nO" dimension of every node of model.walk()
    cfg,         \* self.cfg: the option names stored so far
    n_actions,   \* the n_actions local of begin_training, None after any other step
    log,         \* the calls the last operation made, in order
    outcome,     \* how the last operation ended: "ok" or the exception raised
    last,        \* the last step taken: [op, arg]
    prevLabels,  \* the registry as it was before the last step
    sample,      \* (doc_sample, output_sample) of begin_training, None after any other step
    prevDims,    \* dims as it was before the last step
    doc_len,     \* len(doc) of the document the tag scheme works on
    gold,        \* the entity spans handed to encode
    tags,        \* the per-token tag sequence: None, or the list of tags
    ents,        \* the entity spans decode returned: None, or the set
    phase,       \* where the tag scheme stands: "idle"; "gold", then "encoded" or
                 \* "encode_error", then "round_trip" or "round_trip_error"; "tags",
                 \* then "decoded" or "decode_error"
    batch,       \* the examples of a batch: each [len |-> len(eg.doc), ner |-> eg.gold.ner]
    scores,      \* the score matrices held for the batch: a list of lists of rows
    doc_ents,    \* per document of the batch: None, or the doc.ents set_annotations assigned
    losses,      \* losses.get(self.name) of the caller's accumulator: None or the number
    prevLosses,  \* losses as it was before the last step
    d_scores,    \* the d_scores list get_loss built in the last step, None if it built none
    grads,       \* what bp_scores was called with in the last step, None if it was not called
    ret          \* the loss the last step returned, None if it returned none

pipevars == <<corpus, labels, dims, cfg, n_actions, log, outcome, last, prevLabels,
              sample, prevDims>>
tagvars == <<doc_len, gold, tags, ents, phase>>
batchvars == <<batch, scores, doc_ents, losses, prevLosses, d_scores, grads, ret>>
vars == <<pipevars, tagvars, batchvars>>

-----------------------------------------------------------------------------
(* Bounds *)

\* the most examples the provider holds
MaxExamples == 2
\* the most tokens (NER tags) the provider holds over all its examples
MaxTokens == 2
\* the longest document the tag scheme is run on
MaxDocLen == 3
\* the most spans of a gold annotation handed to encode
MaxSpans == 2

-----------------------------------------------------------------------------
(* Strings *)

\* Optional values: Python's None, and a value that is present
None == <<>>
Some(x) == <<x>>
Val(o) == o[1]

Str_O == <<"O">>
Str_Dash == <<"-">>

\* ord(c) of the characters the model uses
Code(c) ==
    CASE c = "-" -> 45
      [] c = "A" -> 65
      [] c = "B" -> 66
      [] c = "I" -> 73
      [] c = "L" -> 76
      [] c = "O" -> 79
      [] c = "U" -> 85

\* Python's str.__lt__: by code point, a proper prefix is smaller
StrLess(a, b) ==
    \E i \in 1..Len(b) :
        /\ i <= Len(a) + 1
        /\ \A j \in 1..(i - 1) : a[j] = b[j]
        /\ (i = Len(a) + 1 \/ Code(a[i]) < Code(b[i]))

Range(s) == {s[i] : i \in 1..Len(s)}

\* the labels the environment uses: "A", "B", "A-B"
LabelPool == {<<"A">>, <<"B">>, <<"A", "-", "B">>}

\* f"{prefix}-{label}"
Fmt(prefix, label) == <<prefix, "-">> \o label

\* the NER tags of a gold corpus: outside, missing, and entity tags
CorpusTags ==
    {Str_O, Str_Dash, Fmt("U", <<"B">>), Fmt("B", <<"A">>), Fmt("L", <<"A", "-", "B">>)}


\* tag.split('-', 1): the parts around the first '-', or the tag alone
FirstDash(tag) ==
    IF \E i \in 1..Len(tag) : tag[i] = "-"
    THEN CHOOSE i \in 1..Len(tag) : tag[i] = "-" /\ \A j \in 1..(i - 1) : tag[j] # "-"
    ELSE 0

Split(tag) ==
    IF FirstDash(tag) = 0
    THEN <<tag>>
    ELSE <<SubSeq(tag, 1, FirstDash(tag) - 1), SubSeq(tag, FirstDash(tag) + 1, Len(tag))>>

\* one step of sorted(): x goes behind the elements that are not greater
Insert(x, s) ==
    LET k == Cardinality({i \in 1..Len(s) : ~StrLess(x, s[i])})
    IN  SubSeq(s, 1, k) \o <<x>> \o SubSeq(s, k + 1, Len(s))

RECURSIVE sorted(_)
\* sorted(xs) of a list of strings
sorted(xs) ==
    IF xs = <<>> THEN <<>>
    ELSE Insert(xs[Len(xs)], sorted(SubSeq(xs, 1, Len(xs) - 1)))

RECURSIVE IterSet(_)
\* the elements of a Python set in the order one iteration yields them
IterSet(S) ==
    IF S = {} THEN <<>>
    ELSE LET x == CHOOSE y \in S : TRUE IN <<x>> \o IterSet(S \ {x})

-----------------------------------------------------------------------------
(* The label registry and the tag vocabulary *)

\* add_label putting a new label in front of the list
add_label_Prepend(reg, label) ==
    IF reg = None THEN Some(<<label>>)
    ELSE IF label \notin Range(Val(reg)) THEN Some(<<label>> \o Val(reg))
    ELSE reg

\* add_label without the test for a label already present
add_label_NoCheck(reg, label) ==
    IF reg = None THEN Some(<<label>>)
    ELSE Some(Append(Val(reg), label))

\* SimpleNER.add_label: biluo.attrs["labels"] after add_label(label)
add_label(reg, label) ==
    IF reg = None THEN Some(<<label>>)
    ELSE IF label \notin Range(Val(reg)) THEN Some(Append(Val(reg), label))
    ELSE reg

\* get_tag_names sorting the labels itself
get_tag_names_Sorted(reg) ==
    [i \in 1..Len(reg) |-> Fmt("B", sorted(reg)[i])] \o
    [i \in 1..Len(reg) |-> Fmt("I", sorted(reg)[i])] \o
    [i \in 1..Len(reg) |-> Fmt("L", sorted(reg)[i])] \o
    [i \in 1..Len(reg) |-> Fmt("U", sorted(reg)[i])] \o
    <<Str_O>>

\* get_tag_names with the BIOES spelling E- for the last token of a span
get_tag_names_BIOES(reg) ==
    [i \in 1..Len(reg) |-> Fmt("B", reg[i])] \o
    [i \in 1..Len(reg) |-> Fmt("I", reg[i])] \o
    [i \in 1..Len(reg) |-> Fmt("E", reg[i])] \o
    [i \in 1..Len(reg) |-> Fmt("U", reg[i])] \o
    <<Str_O>>

\* SimpleNER.get_tag_names when self.labels is the list reg (None is not iterable)
get_tag_names(reg) ==
    [i \in 1..Len(reg) |-> Fmt("B", reg[i])] \o
    [i \in 1..Len(reg) |-> Fmt("I", reg[i])] \o
    [i \in 1..Len(reg) |-> Fmt("L", reg[i])] \o
    [i \in 1..Len(reg) |-> Fmt("U", reg[i])] \o
    <<Str_O>>

-----------------------------------------------------------------------------
(* Label discovery *)

\* ScanTag without the test for the missing-value tag '-'
ScanTag_NoDash(tag, acc) ==
    IF tag # Str_O
    THEN acc \cup {Split(tag)[2]}
    ELSE acc

\* the body of the inner loop of _get_labels for one tag
ScanTag(tag, acc) ==
    IF tag # Str_O /\ tag # Str_Dash
    THEN acc \cup {Split(tag)[2]}
    ELSE acc

RECURSIVE ScanTags(_, _)
\* the inner loop of _get_labels over eg.token_annotation.entities
ScanTags(entities, acc) ==
    IF entities = <<>> THEN acc
    ELSE ScanTags(Tail(entities), ScanTag(Head(entities), acc))

RECURSIVE ScanExamples(_, _)
\* the outer loop of _get_labels
ScanExamples(examples, acc) ==
    IF examples = <<>> THEN acc
    ELSE ScanExamples(Tail(examples), ScanTags(Head(examples), acc))

\* _get_labels(examples)
_get_labels(examples) == sorted(IterSet(ScanExamples(examples, {})))

\* the nodes of model.walk(), in walk order
Walk == <<"tok2vec", "mish", "linear", "biluo">>

\* _set_labels without the test for labels that are already set
_set_labels_Overwrite(reg, found) ==
    [labels    |-> Some(sorted(found)),
     n_actions |-> Len(found) * 4 + 1]

\* _set_labels(model, found): the registry it leaves and the n_actions it returns
_set_labels(reg, found) ==
    [labels    |-> IF (\E i \in 1..Len(Walk) : Walk[i] = "biluo") /\ reg = None
                   THEN Some(sorted(found)) ELSE reg,
     n_actions |-> Len(found) * 4 + 1]

-----------------------------------------------------------------------------
(* The tag scheme: encode and decode *)

\* an entity span (start, end exclusive, label) over token indices 0..n-1
Span(s, e, l) == [start |-> s, end |-> e, label |-> l]

Overlap(a, b) == a.start < b.end /\ b.start < a.end

\* SpanTag with the last token of a span tagged I- instead of L-
SpanTag_NoLast(sp, i) ==
    IF sp.end - sp.start = 1 THEN Fmt("U", sp.label)
    ELSE IF i = sp.start THEN Fmt("B", sp.label)
    ELSE Fmt("I", sp.label)

\* the tag encode gives token i (0-based) under the span sp that covers it
SpanTag(sp, i) ==
    IF sp.end - sp.start = 1 THEN Fmt("U", sp.label)
    ELSE IF i = sp.start THEN Fmt("B", sp.label)
    ELSE IF i = sp.end - 1 THEN Fmt("L", sp.label)
    ELSE Fmt("I", sp.label)

\* encode(document, spans): None for an encoding error, or the tag of every token
encode(n, spans, reg) ==
    IF \/ \E a \in spans, b \in spans : a # b /\ Overlap(a, b)
       \/ \E a \in spans : a.label \notin Range(reg)
    THEN None
    ELSE Some([k \in 1..n |->
                 IF \E sp \in spans : sp.start <= k - 1 /\ k - 1 < sp.end
                 THEN SpanTag(CHOOSE sp \in spans : sp.start <= k - 1 /\ k - 1 < sp.end, k - 1)
                 ELSE Str_O])

\* the kind of a tag, "?" for a string that is no tag
TagKind(tag) ==
    IF tag = Str_O THEN "O"
    ELSE IF Len(tag) >= 2 /\ tag[2] = "-" /\ tag[1] \in {"B", "I", "L", "U"} THEN tag[1]
    ELSE "?"

TagLabel(tag) == SubSeq(tag, 3, Len(tag))

\* DecodeStep with L- closing the open span whatever its label
DecodeStep_AnyLabel(st, i, t) ==
    LET kind  == TagKind(t)
        label == TagLabel(t)
    IN  CASE kind = "O" -> [st EXCEPT !.open = None]
          [] kind = "U" -> [st EXCEPT !.open = None,
                                      !.ents = @ \cup {Span(i, i + 1, label)}]
          [] kind = "B" -> [st EXCEPT !.open = Some([start |-> i, label |-> label])]
          [] kind = "I" -> st
          [] kind = "L" -> IF st.open # None
                           THEN [st EXCEPT !.open = None,
                                           !.ents = @ \cup {Span(Val(st.open).start, i + 1, label)}]
                           ELSE st
          [] OTHER      -> [st EXCEPT !.raised = TRUE]

\* decode's transition at token i (0-based) with tag t, from scan state st:
\* st.open is the open span (None, or its start and label), st.ents the spans emitted
DecodeStep(st, i, t) ==
    LET kind  == TagKind(t)
        label == TagLabel(t)
        match == st.open # None /\ Val(st.open).label = label
    IN  CASE kind = "O" -> [st EXCEPT !.open = None]
          [] kind = "U" -> [st EXCEPT !.open = None,
                                      !.ents = @ \cup {Span(i, i + 1, label)}]
          [] kind = "B" -> [st EXCEPT !.open = Some([start |-> i, label |-> label])]
          [] kind = "I" -> IF match THEN st ELSE [st EXCEPT !.open = None]
          [] kind = "L" -> IF match
                           THEN [st EXCEPT !.open = None,
                                           !.ents = @ \cup {Span(Val(st.open).start, i + 1, label)}]
                           ELSE [st EXCEPT !.open = None]
          [] OTHER      -> [st EXCEPT !.raised = TRUE]

RECURSIVE DecodeScan(_, _, _)
\* the left-to-right scan of decode from token i on
DecodeScan(st, i, ts) ==
    IF i >= Len(ts) \/ st.raised THEN st
    ELSE DecodeScan(DecodeStep(st, i, ts[i + 1]), i + 1, ts)

\* decode(document, tags): None when it raises, or the set of spans; a span
\* still open at the end is dropped
decode(ts) ==
    LET st == DecodeScan([open |-> None, ents |-> {}, raised |-> FALSE], 0, ts)
    IN  IF st.raised THEN None ELSE Some(st.ents)

-----------------------------------------------------------------------------
(* begin_training *)

\* the default of _get_sample's limit parameter
SampleLimit == 10

\* _get_sample(ops, n_actions, examples): the inner loop reads the undefined
\* name `parses`, so the first example raises NameError
_get_sample(n, examples) ==
    IF examples # <<>>
    THEN [raised |-> "NameError", doc_sample |-> <<>>, output_sample |-> <<>>]
    ELSE [raised |-> "ok", doc_sample |-> <<>>, output_sample |-> <<>>]

\* node.has_dim("nO") is None: the dimension is registered and unset
has_dim_is_None(d) == d = None

\* SetMishDim without the test that the dimension is still unset
SetMishDim_Always(ds, n) ==
    [node \in DOMAIN ds |-> IF node = "mish" THEN Some(n) ELSE ds[node]]

\* the loop over model.walk() of begin_training's else branch
SetMishDim(ds, n) ==
    [node \in DOMAIN ds |->
        IF has_dim_is_None(ds[node]) /\ node = "mish" THEN Some(n) ELSE ds[node]]

\* the option names a caller passes as **kwargs
KwargSets == {{}, {"learn_rate"}}

RECURSIVE TotalLen(_)
TotalLen(examples) ==
    IF examples = <<>> THEN 0 ELSE Len(Head(examples)) + TotalLen(Tail(examples))

-----------------------------------------------------------------------------
(* The state machine *)

\* no batch is being worked on
BatchIdle ==
    /\ batch = <<>>
    /\ scores = <<>>
    /\ doc_ents = <<>>
    /\ losses = None
    /\ prevLosses = None
    /\ d_scores = None
    /\ grads = None
    /\ ret = None

Init ==
    /\ corpus = <<>>
    /\ labels = None
    /\ \E m \in {None, Some(9)} :
          dims = [node \in Range(Walk) |->
                     IF node = "tok2vec" THEN Some(4) ELSE IF node = "mish" THEN m ELSE None]
    /\ cfg = {}
    /\ n_actions = None
    /\ log = <<>>
    /\ outcome = "ok"
    /\ last = [op |-> "init", arg |-> None]
    /\ prevLabels = None
    /\ sample = None
    /\ prevDims = dims
    /\ BatchIdle
    /\ doc_len = 0
    /\ gold = {}
    /\ tags = None
    /\ ents = None
    /\ phase = "idle"

\* the annotation source gains an example
ProviderAddExample ==
    /\ Len(corpus) < MaxExamples
    /\ corpus' = Append(corpus, <<>>)
    /\ last' = [op |-> "provider", arg |-> None]
    /\ prevLabels' = labels
    /\ n_actions' = None
    /\ log' = <<>>
    /\ outcome' = "ok"
    /\ sample' = None
    /\ prevDims' = dims
    /\ UNCHANGED <<labels, dims, cfg, tagvars, batchvars>>

\* the last example of the annotation source gains a token with NER tag t
ProviderAddTag(t) ==
    /\ corpus # <<>>
    /\ TotalLen(corpus) < MaxTokens
    /\ corpus' = [corpus EXCEPT ![Len(corpus)] = Append(@, t)]
    /\ last' = [op |-> "provider", arg |-> None]
    /\ prevLabels' = labels
    /\ n_actions' = None
    /\ log' = <<>>
    /\ outcome' = "ok"
    /\ sample' = None
    /\ prevDims' = dims
    /\ UNCHANGED <<labels, dims, cfg, tagvars, batchvars>>

\* SimpleNER.add_label(label)
AddLabel(label) ==
    /\ labels' = add_label(labels, label)
    /\ log' = <<>>
    /\ outcome' = "ok"
    /\ last' = [op |-> "add_label", arg |-> label]
    /\ prevLabels' = labels
    /\ n_actions' = None
    /\ sample' = None
    /\ prevDims' = dims
    /\ UNCHANGED <<corpus, dims, cfg, tagvars, batchvars>>

\* SimpleNER.begin_training(get_examples, pipeline, sgd, **kwargs)
BeginTraining(kwargs, pipeline) ==
    LET found  == _get_labels(corpus)
        set    == _set_labels(labels, found)
        got == _get_sample(set.n_actions, corpus)
        head   == <<"_get_labels", "_get_labels", "_set_labels", "_get_sample">>
        tail   == (IF pipeline THEN <<"init_multitask_objectives">> ELSE <<>>)
                  \o <<"link_vectors_to_models", "return">>
    IN  /\ cfg' = cfg \cup kwargs
        /\ labels' = set.labels
        /\ n_actions' = Some(set.n_actions)
        /\ IF got.raised # "ok"
           THEN /\ outcome' = got.raised
                /\ log' = head
                /\ dims' = dims
           ELSE IF got.doc_sample # <<>>
           THEN /\ outcome' = "ok"
                /\ log' = head \o <<"initialize(X, Y)">> \o tail
                /\ dims' = dims
           ELSE /\ outcome' = "ok"
                /\ log' = head
                          \o (IF has_dim_is_None(dims["mish"]) THEN <<"set_dim">> ELSE <<>>)
                          \o <<"initialize()">> \o tail
                /\ dims' = SetMishDim(dims, set.n_actions)
        /\ last' = [op |-> "begin_training", arg |-> None]
        /\ prevLabels' = labels
        /\ sample' = IF got.raised # "ok" THEN None
                      ELSE Some([doc_sample    |-> got.doc_sample,
                                 output_sample |-> got.output_sample])
        /\ prevDims' = dims
        /\ UNCHANGED <<corpus, tagvars, batchvars>>

Next ==
    \/ ProviderAddExample
    \/ \E t \in CorpusTags : ProviderAddTag(t)
    \/ \E l \in LabelPool : AddLabel(l)
    \/ \E kw \in KwargSets, p \in BOOLEAN : BeginTraining(kw, p)

Spec == Init /\ [][Next]_vars

-----------------------------------------------------------------------------
(* The tag scheme as a state machine: a document, a registry and either a    *)
(* gold annotation to encode or a tag sequence to decode                     *)

\* the registries label discovery can leave
Registries == {sorted(IterSet(S)) : S \in SUBSET LabelPool}

AllSpans(n) == {Span(s, e, l) : s \in 0..(n - 1), e \in 1..n, l \in LabelPool}

RECURSIVE SetsUpTo(_, _)
\* the subsets of S with at most k elements
SetsUpTo(S, k) ==
    IF k = 0 THEN {{}}
    ELSE LET smaller == SetsUpTo(S, k - 1)
         IN  smaller \cup {T \cup {x} : T \in smaller, x \in S}

\* gold annotations: any spans with start < end inside the document, overlapping
\* or with labels outside the registry included (encode has to reject those)
GoldSets(n) == SetsUpTo({sp \in AllSpans(n) : sp.start < sp.end}, MaxSpans)

TagSeqs(n, reg) == [1..n -> Range(get_tag_names(reg))]

InitTags ==
    /\ corpus = <<>>
    /\ \E reg \in Registries : labels = Some(reg)
    /\ dims = [node \in Range(Walk) |-> None]
    /\ cfg = {}
    /\ n_actions = None
    /\ log = <<>>
    /\ outcome = "ok"
    /\ last = [op |-> "init", arg |-> None]
    /\ prevLabels = None
    /\ sample = None
    /\ prevDims = dims
    /\ BatchIdle
    /\ doc_len \in 0..MaxDocLen
    /\ ents = None
    /\ \/ /\ phase = "gold"
          /\ gold \in GoldSets(doc_len)
          /\ tags = None
       \/ /\ phase = "tags"
          /\ gold = {}
          /\ \E ts \in TagSeqs(doc_len, Val(labels)) : tags = Some(ts)

\* encode(document, gold spans)
Encode ==
    /\ phase = "gold"
    /\ tags' = encode(doc_len, gold, Val(labels))
    /\ phase' = IF tags' = None THEN "encode_error" ELSE "encoded"
    /\ last' = [op |-> "encode", arg |-> None]
    /\ UNCHANGED <<corpus, labels, dims, cfg, n_actions, log, outcome, prevLabels,
                   sample, prevDims>>
    /\ UNCHANGED <<doc_len, gold, ents>>
    /\ UNCHANGED batchvars

\* decode(document, tags)
Decode ==
    /\ phase \in {"tags", "encoded"}
    /\ ents' = decode(Val(tags))
    /\ phase' = IF phase = "encoded"
                THEN (IF ents' = None THEN "round_trip_error" ELSE "round_trip")
                ELSE (IF ents' = None THEN "decode_error" ELSE "decoded")
    /\ last' = [op |-> "decode", arg |-> None]
    /\ UNCHANGED <<corpus, labels, dims, cfg, n_actions, log, outcome, prevLabels,
                   sample, prevDims>>
    /\ UNCHANGED <<doc_len, gold, tags>>
    /\ UNCHANGED batchvars

NextTags == Encode \/ Decode

SpecTags == InitTags /\ [][NextTags]_vars

-----------------------------------------------------------------------------
(* Properties of the tag scheme, under SpecTags *)

ValidGold ==
    /\ \A a \in gold, b \in gold : a # b => ~Overlap(a, b)
    /\ \A a \in gold : a.label \in Range(Val(labels))

\* C1: round trip. Encoding a set of pairwise non-overlapping spans with
\* registered labels succeeds, decoding the tags it gives does not fail, and
\* it returns exactly the spans that were encoded.
C1_RoundTrip ==
    /\ phase = "round_trip" => ents = Some(gold)
    /\ phase = "encode_error" => ~ValidGold
    /\ phase # "round_trip_error"

\* a round trip of a two-token span followed by a one-token span
C1_Witness ==
    /\ phase = "round_trip"
    /\ Cardinality(gold) = 2
    /\ \E a \in gold, b \in gold :
          a.end - a.start = 2 /\ b.end - b.start = 1 /\ a.label # b.label

\* the number of tags of ts that close a span
Closers(ts) == Cardinality({i \in 1..Len(ts) : TagKind(ts[i]) \in {"U", "L"}})

WellFormedRun(ts, sp) ==
    \/ /\ sp.end = sp.start + 1
       /\ ts[sp.start + 1] = Fmt("U", sp.label)
    \/ /\ sp.end > sp.start + 1
       /\ ts[sp.start + 1] = Fmt("B", sp.label)
       /\ \A j \in (sp.start + 1)..(sp.end - 2) : ts[j + 1] = Fmt("I", sp.label)
       /\ ts[sp.end] = Fmt("L", sp.label)

\* C3: whatever the tag sequence, every span decode returns lies inside the
\* document with start < end, the spans do not overlap, and each one is a
\* U-label token or a run B-label, I-label..., L-label of one label; so a span
\* that is interrupted or still open at the end is not returned.
C3_SpansStructurallyValid ==
    phase \in {"decoded", "round_trip"} =>
        /\ \A sp \in Val(ents) :
              /\ 0 <= sp.start /\ sp.start < sp.end /\ sp.end <= doc_len
              /\ WellFormedRun(Val(tags), sp)
        /\ \A a \in Val(ents), b \in Val(ents) : a # b => ~Overlap(a, b)

\* decode returned the span of [B-x, L-x] and dropped the span a final B- opened
C3_Witness ==
    /\ phase = "decoded"
    /\ doc_len = 3
    /\ TagKind(Val(tags)[3]) = "B"
    /\ \E sp \in Val(ents) : sp.start = 0 /\ sp.end = 2
    /\ Cardinality(Val(ents)) = 1

-----------------------------------------------------------------------------
(* Properties of the registry and of begin_training, under Spec *)

IsPrefix(a, b) == Len(a) <= Len(b) /\ SubSeq(b, 1, Len(a)) = a

\* the tag kinds in the order of the vocabulary: B=0, I=1, L=2, U=3
KindAt(k) == <<"B", "I", "L", "U">>[k + 1]

\* the entity tags of a corpus, and the labels they carry
EntityTags(examples) ==
    {t \in UNION {Range(examples[i]) : i \in 1..Len(examples)} : TagKind(t) \in {"B", "I", "L", "U"}}

CorpusLabels(examples) == {TagLabel(t) : t \in EntityTags(examples)}

\* C4: after begin_training the action count it computed equals 4*|labels|+1
\* for the registry as it then stands, which is the length of get_tag_names().
C4_ActionCountMatchesRegistry ==
    last.op = "begin_training" =>
        /\ Val(n_actions) = 4 * Len(Val(labels)) + 1
        /\ Val(n_actions) = Len(get_tag_names(Val(labels)))

\* C5: for a registry of n labels get_tag_names has 4n+1 tags, the tag of
\* kind k for the label at registry position p is at action index k*n+p, "O"
\* is at index 4n, and the labels are taken in the registry's stored order.
C5_TagNamesLayout ==
    labels # None =>
        LET reg   == Val(labels)
            n     == Len(reg)
            names == get_tag_names(reg)
        IN  /\ Len(names) = 4 * n + 1
            /\ \A k \in 0..3, p \in 0..(n - 1) :
                  names[k * n + p + 1] = Fmt(KindAt(k), reg[p + 1])
            /\ names[4 * n + 1] = Str_O

\* a registry of two labels stored out of lexicographic order
C5_Witness ==
    /\ labels # None
    /\ Len(Val(labels)) = 2
    /\ StrLess(Val(labels)[2], Val(labels)[1])

\* the last step was add_label of a label absent from a populated registry
AppendedToPopulated ==
    /\ last.op = "add_label"
    /\ prevLabels # None
    /\ last.arg \notin Range(Val(prevLabels))

\* C6 as stated: every tag that existed before add_label appended a label has
\* the same action index after it.
C6_IndicesPreserved ==
    AppendedToPopulated =>
        \A i \in 1..Len(get_tag_names(Val(prevLabels))) :
            get_tag_names(Val(labels))[i] = get_tag_names(Val(prevLabels))[i]

\* C6 amended: when add_label appends a label to a registry of n labels, every
\* label keeps its registry position p, the tag of kind k for it moves from
\* action index k*n+p to k*(n+1)+p (so only the B- tags keep their index), and
\* "O" moves from index 4n to 4n+4.
C6_PositionsPreservedIndicesShift ==
    AppendedToPopulated =>
        LET old == get_tag_names(Val(prevLabels))
            new == get_tag_names(Val(labels))
            n   == Len(Val(prevLabels))
        IN  /\ Len(Val(labels)) = n + 1
            /\ \A p \in 1..n : Val(labels)[p] = Val(prevLabels)[p]
            /\ \A k \in 0..3, p \in 0..(n - 1) :
                  new[k * (n + 1) + p + 1] = old[k * n + p + 1]
            /\ new[4 * n + 5] = old[4 * n + 1]

\* add_label has appended a label to a registry that held two
C6_Witness ==
    /\ AppendedToPopulated
    /\ Len(Val(prevLabels)) = 2

\* C7: once the registry is populated, add_label and begin_training leave
\* its former contents as a prefix of the new ones, and a label that
\* add_label adds is the last one.
C7_AppendOnly ==
    (prevLabels # None /\ last.op \in {"add_label", "begin_training"}) =>
        /\ labels # None
        /\ IsPrefix(Val(prevLabels), Val(labels))
        /\ Len(Val(labels)) <= Len(Val(prevLabels)) + 1
        /\ AppendedToPopulated => Val(labels) = Append(Val(prevLabels), last.arg)

\* begin_training has run on a populated registry with a corpus that carries
\* a label the registry lacks
C7_Witness ==
    /\ last.op = "begin_training"
    /\ prevLabels # None
    /\ Val(prevLabels) # <<>>
    /\ \E l \in CorpusLabels(corpus) : l \notin Range(Val(prevLabels))

\* C8: add_label is idempotent. After add_label(x) a second add_label(x)
\* leaves the registry, its order and the tag names as they are, and
\* add_label of a label already present changed nothing.
C8_AddLabelIdempotent ==
    last.op = "add_label" =>
        /\ last.arg \in Range(Val(labels))
        /\ add_label(labels, last.arg) = labels
        /\ get_tag_names(Val(add_label(labels, last.arg))) = get_tag_names(Val(labels))
        /\ (prevLabels # None /\ last.arg \in Range(Val(prevLabels))) => labels = prevLabels

\* add_label(x) has run on the registry [x] that add_label(x) made of the unset one
C8_Witness ==
    /\ last.op = "add_label"
    /\ prevLabels = Some(<<last.arg>>)
    /\ labels = prevLabels


Perms(n) == {f \in [1..n -> 1..n] : \A i \in 1..n, j \in 1..n : i # j => f[i] # f[j]}

Reverse(xs) == [i \in 1..Len(xs) |-> xs[Len(xs) + 1 - i]]

\* the same corpus with its examples in another order, and with the tokens of
\* every example in reverse order as well
Orderings(examples) ==
    LET moved == {[i \in 1..Len(examples) |-> examples[f[i]]] : f \in Perms(Len(examples))}
    IN  moved \cup {[i \in 1..Len(c) |-> Reverse(c[i])] : c \in moved}

\* C9: begin_training on an unset registry sets it to the labels of the
\* corpus's entity tags ('O' and '-' give none), each once, in ascending
\* lexicographic order; every ordering of the corpus gives the same registry.
C9_Discovery ==
    (last.op = "begin_training" /\ prevLabels = None) =>
        /\ labels # None
        /\ Range(Val(labels)) = CorpusLabels(corpus)
        /\ Len(Val(labels)) = Cardinality(CorpusLabels(corpus))
        /\ \A i \in 1..Len(Val(labels)), j \in 1..Len(Val(labels)) :
              i < j => StrLess(Val(labels)[i], Val(labels)[j])
        /\ \A c \in Orderings(corpus) :
              _set_labels(None, _get_labels(c)).labels = labels

\* begin_training has discovered two labels from a corpus of two examples
\* that carries them in descending order
C9_Witness ==
    /\ last.op = "begin_training"
    /\ prevLabels = None
    /\ Len(corpus) = 2
    /\ Len(Val(labels)) = 2
    /\ Len(corpus[1]) = 1
    /\ TagKind(corpus[1][1]) # "O"
    /\ TagLabel(corpus[1][1]) = Val(labels)[2]

\* C10: begin_training on a populated registry leaves every label of the
\* corpus in the registry, the new ones behind the labels it held.
C10_ReentrantAdditive ==
    (last.op = "begin_training" /\ prevLabels # None) =>
        /\ CorpusLabels(corpus) \subseteq Range(Val(labels))
        /\ IsPrefix(Val(prevLabels), Val(labels))


-----------------------------------------------------------------------------
(* Properties of the begin_training lifecycle, under Spec *)

\* the places of the log that hold one of the entries es
Places(es) == {i \in 1..Len(log) : log[i] \in es}

Before(as, bs) == \A i \in Places(as), j \in Places(bs) : i < j

InitializeCalls == {"initialize()", "initialize(X, Y)"}

\* C11: every begin_training call runs label discovery, then action-space
\* sizing, then sample construction, then the model's initialize exactly
\* once, and only then the multitask hook and the return.
C11_LifecycleOrder ==
    last.op = "begin_training" =>
        /\ Cardinality(Places(InitializeCalls)) = 1
        /\ Places({"_get_labels"}) # {}
        /\ Cardinality(Places({"_set_labels"})) = 1
        /\ Cardinality(Places({"_get_sample"})) = 1
        /\ Before({"_get_labels"}, {"_set_labels"})
        /\ Before({"_set_labels"}, {"_get_sample"})
        /\ Before({"_get_sample"}, InitializeCalls)
        /\ Before(InitializeCalls, {"init_multitask_objectives", "return"})
        /\ log[Len(log)] = "return"

\* C14: begin_training that leaves the registry empty raises an error and
\* gives no action count.
C14_EmptyRegistryIsError ==
    (last.op = "begin_training" /\ (labels = None \/ Val(labels) = <<>>)) =>
        /\ outcome # "ok"
        /\ n_actions = None
        /\ dims = prevDims

Min(a, b) == IF a <= b THEN a ELSE b

\* ops.alloc2f(rows, cols)
Zeros(rows, cols) == [r \in 1..rows |-> [c \in 1..cols |-> 0]]

\* C16: begin_training builds a sample of the first min(10, corpus size)
\* examples: their documents, and for each a zero matrix of len(doc) rows and
\* n_actions columns.
C16_SampleBounded ==
    last.op = "begin_training" =>
        /\ sample # None
        /\ Len(Val(sample).doc_sample) = Min(Len(corpus), SampleLimit)
        /\ Len(Val(sample).output_sample) = Len(Val(sample).doc_sample)
        /\ \A i \in 1..Len(Val(sample).doc_sample) :
              /\ Val(sample).doc_sample[i] = corpus[i]
              /\ Val(sample).output_sample[i] = Zeros(Len(corpus[i]), Val(n_actions))

\* C17: begin_training leaves every node's output dimension but the "mish"
\* node's alone, leaves the "mish" node's alone when it is already set, and
\* otherwise writes the action count to it, when no sample was built, before
\* it calls the model's initialize.
C17_FixedDimNotChanged ==
    last.op = "begin_training" =>
        /\ \A node \in DOMAIN dims : node # "mish" => dims[node] = prevDims[node]
        /\ prevDims["mish"] # None => dims["mish"] = prevDims["mish"]
        /\ dims["mish"] # prevDims["mish"] =>
              /\ sample # None /\ Val(sample).doc_sample = <<>>
              /\ dims["mish"] = n_actions
              /\ Places({"set_dim"}) # {}
        /\ (prevDims["mish"] = None /\ outcome = "ok") => dims["mish"] = n_actions
        /\ Before({"set_dim"}, InitializeCalls)

\* begin_training has initialized a model whose "mish" dimension was fixed
\* beforehand at a value other than the action count
C17_Witness ==
    /\ last.op = "begin_training"
    /\ outcome = "ok"
    /\ prevDims["mish"] # None
    /\ prevDims["mish"] # n_actions
    /\ Places(InitializeCalls) # {}

-----------------------------------------------------------------------------
(* set_annotations, get_loss and update, under SpecBatch *)

\* the longest batch
MaxBatch == 2

\* the accumulator entry the model lets a caller reach
MaxLoss == 3

\* the losses loss_func gives one document
DocLosses == {0, 1}

\* the registries a batch is worked under: unset, ["A"], ["A", "B"]
BatchRegistries == {None, Some(<< <<"A">> >>), Some(<< <<"A">>, <<"B">> >>)}

\* the gold tags of the batch's tokens
GoldTagPool == {Str_O, Fmt("U", <<"A">>), Fmt("U", <<"B">>)}

\* the examples of a batch: documents of no or one token with their gold tags
ExamplePool ==
    {[len |-> 0, ner |-> <<>>]} \cup {[len |-> 1, ner |-> <<t>>] : t \in GoldTagPool}

\* the examples whose gold tags are all "O"
PlainExamples == {eg \in ExamplePool : \A t \in Range(eg.ner) : t = Str_O}

SeqsUpTo(S, k) == UNION {[1..n -> S] : n \in 0..k}

\* the number of columns of a score matrix under the registry reg
Width(reg) == IF reg = None THEN 1 ELSE Len(get_tag_names(Val(reg)))

\* score rows: all equal, and the first U- column tied with the last column
RowPool(w) ==
    {[c \in 1..w |-> 0],
     [c \in 1..w |-> IF c = w \/ 4 * c = 3 * (w - 1) + 4 THEN 1 ELSE 0]}

\* score matrices of no or one row
MatrixPool(w) == {<<>>} \cup {<<row>> : row \in RowPool(w)}

\* ndarray.argmax of one row: the lowest index that attains the maximum (1-based)
argmax(row) ==
    CHOOSE k \in 1..Len(row) :
        /\ \A c \in 1..Len(row) : row[c] <= row[k]
        /\ \A c \in 1..(k - 1) : row[c] < row[k]

\* set_annotations(docs, scores): how it ends, and the doc.ents it leaves.
\* The first pass of the loop over docs always raises: scores[i] when there
\* is no matrix i, actions[j, i] on the one-dimensional argmax result when
\* the document has a token, and otherwise the call of the undefined name
\* spans_from_biluo_tags; doc.ents is assigned only after that call returns.
set_annotations(reg, docs, scs, old) ==
    IF reg = None THEN [raised |-> "TypeError", ents |-> old]
    ELSE IF docs = <<>> THEN [raised |-> "ok", ents |-> old]
    ELSE IF Len(scs) < 1 THEN [raised |-> "IndexError", ents |-> old]
    ELSE LET actions == [j \in 1..Len(scs[1]) |-> argmax(scs[1][j])]
         IN  IF docs[1].len >= 1
             THEN [raised |-> "IndexError", ents |-> old]
             ELSE [raised |-> "NameError", ents |-> old]

RECURSIVE SumTo(_, _)
\* loss += doc_loss over the first n documents
SumTo(dl, n) == IF n = 0 THEN 0 ELSE SumTo(dl, n - 1) + dl[n]

\* get_loss(examples, scores): zip pairs the examples with the matrices up to
\* the shorter list; loss_func raises on a gold tag that is not one of its
\* names and on a gold sequence whose length is not the matrix's row count;
\* the gradient of document i is written i
get_loss(reg, examples, scs, dl) ==
    IF reg = None THEN [raised |-> "TypeError", loss |-> None, d_scores |-> None]
    ELSE LET names == Range(get_tag_names(Val(reg)))
             n     == Min(Len(examples), Len(scs))
         IN  IF \E i \in 1..n : \E t \in Range(examples[i].ner) : t \notin names
             THEN [raised |-> "KeyError", loss |-> None, d_scores |-> None]
             ELSE IF \E i \in 1..n : Len(examples[i].ner) # Len(scs[i])
             THEN [raised |-> "ValueError", loss |-> None, d_scores |-> None]
             ELSE [raised   |-> "ok",
                   loss     |-> Some(SumTo(dl, n)),
                   d_scores |-> Some([i \in 1..n |-> i])]

\* accumulate that forgets what the entry held
accumulate_Overwrite(entry, loss) == Some(loss)

\* losses.setdefault(self.name, 0.0); losses[self.name] += loss
accumulate(entry, loss) == Some((IF entry = None THEN 0 ELSE Val(entry)) + loss)

\* a batch under a registry, with either plain gold tags and any score
\* matrices, or any gold tags and one zero matrix of the document's shape
\* for each of the first documents
InitBatch ==
    /\ corpus = <<>>
    /\ labels \in BatchRegistries
    /\ dims = [node \in Range(Walk) |-> None]
    /\ cfg = {}
    /\ n_actions = None
    /\ log = <<>>
    /\ outcome = "ok"
    /\ last = [op |-> "init", arg |-> None]
    /\ prevLabels = None
    /\ sample = None
    /\ prevDims = dims
    /\ doc_len = 0
    /\ gold = {}
    /\ tags = None
    /\ ents = None
    /\ phase = "idle"
    /\ \/ /\ batch \in SeqsUpTo(PlainExamples, MaxBatch)
          /\ scores \in SeqsUpTo(MatrixPool(Width(labels)), MaxBatch)
          /\ losses = None
       \/ /\ batch \in SeqsUpTo(ExamplePool, MaxBatch)
          /\ \E k \in 0..Len(batch) :
                scores = [i \in 1..k |-> Zeros(batch[i].len, Width(labels))]
          /\ losses \in {None, Some(0), Some(2)}
    /\ doc_ents = [i \in 1..Len(batch) |-> None]
    /\ prevLosses = losses
    /\ d_scores = None
    /\ grads = None
    /\ ret = None

\* ner.set_annotations(docs, scores)
SetAnnotations ==
    LET r == set_annotations(labels, batch, scores, doc_ents)
    IN  /\ outcome' = r.raised
        /\ doc_ents' = r.ents
        /\ log' = <<"get_tag_names">>
        /\ last' = [op |-> "set_annotations", arg |-> None]
        /\ prevLabels' = labels
        /\ prevLosses' = losses
        /\ d_scores' = None
        /\ grads' = None
        /\ ret' = None
        /\ UNCHANGED <<corpus, labels, dims, cfg, n_actions, sample, prevDims>>
        /\ UNCHANGED <<batch, scores, losses>>
        /\ UNCHANGED tagvars

\* ner.get_loss(examples, scores)
GetLoss(dl) ==
    LET r == get_loss(labels, batch, scores, dl)
    IN  /\ outcome' = r.raised
        /\ ret' = r.loss
        /\ d_scores' = r.d_scores
        /\ grads' = None
        /\ log' = <<"get_tag_names">>
        /\ last' = [op |-> "get_loss", arg |-> None]
        /\ prevLabels' = labels
        /\ prevLosses' = losses
        /\ UNCHANGED <<corpus, labels, dims, cfg, n_actions, sample, prevDims>>
        /\ UNCHANGED <<batch, scores, doc_ents, losses>>
        /\ UNCHANGED tagvars

\* ner.update(examples, set_annotations=annotate, sgd=..., losses=...), where
\* scores holds what self.model.begin_update(docs) returns, one matrix for
\* each document; use_sgd and use_losses say that the argument is not None
Update(annotate, use_sgd, use_losses, dl) ==
    LET r    == get_loss(labels, batch, scores, dl)
        ann  == IF annotate THEN set_annotations(labels, batch, scores, doc_ents)
                ELSE [raised |-> "ok", ents |-> doc_ents]
        head == <<"set_dropout_rate", "begin_update", "get_loss">>
    IN  /\ Len(scores) = Len(batch)
        /\ (use_losses /\ r.raised = "ok") => Val(accumulate(losses, Val(r.loss))) <= MaxLoss
        /\ IF r.raised # "ok"
           THEN /\ outcome' = r.raised
                /\ log' = head
                /\ grads' = None
                /\ ret' = None
                /\ UNCHANGED <<doc_ents, losses>>
           ELSE IF ann.raised # "ok"
           THEN /\ outcome' = ann.raised
                /\ log' = head \o <<"bp_scores", "set_annotations">>
                /\ grads' = r.d_scores
                /\ ret' = None
                /\ doc_ents' = ann.ents
                /\ UNCHANGED losses
           ELSE /\ outcome' = "ok"
                /\ log' = head \o <<"bp_scores">>
                          \o (IF annotate THEN <<"set_annotations">> ELSE <<>>)
                          \o (IF use_sgd THEN <<"finish_update">> ELSE <<>>)
                /\ grads' = r.d_scores
                /\ ret' = r.loss
                /\ doc_ents' = ann.ents
                /\ losses' = IF use_losses THEN accumulate(losses, Val(r.loss)) ELSE losses
        /\ d_scores' = r.d_scores
        /\ last' = [op |-> "update",
                    arg |-> [set_annotations |-> annotate, sgd |-> use_sgd,
                             losses |-> use_losses]]
        /\ prevLabels' = labels
        /\ prevLosses' = losses
        /\ UNCHANGED <<corpus, labels, dims, cfg, n_actions, sample, prevDims>>
        /\ UNCHANGED <<batch, scores>>
        /\ UNCHANGED tagvars

NextBatch ==
    \/ SetAnnotations
    \/ \E dl \in [1..Len(batch) -> DocLosses] : GetLoss(dl)
    \/ \E annotate \in BOOLEAN, use_sgd \in BOOLEAN, use_losses \in BOOLEAN,
          dl \in [1..Len(batch) -> DocLosses] :
          Update(annotate, use_sgd, use_losses, dl)

SpecBatch == InitBatch /\ [][NextBatch]_vars

-----------------------------------------------------------------------------
(* Properties of the batch operations, under SpecBatch *)

NoEntsWritten == \A i \in 1..Len(doc_ents) : doc_ents[i] = None

\* C12: a call of set_annotations, get_loss or update whose document list and
\* score-matrix list differ in length ends in an error, writes no document's
\* entities, gives no loss and no gradient, and leaves the accumulator alone.
C12_LengthMismatchFatal ==
    (/\ last.op \in {"set_annotations", "get_loss", "update"}
     /\ Len(batch) # Len(scores)) =>
        /\ outcome # "ok"
        /\ NoEntsWritten
        /\ ret = None
        /\ d_scores = None
        /\ grads = None
        /\ losses = prevLosses

\* predict_tags: per token the tag at the lowest index attaining the row's maximum
predict_tags(reg, matrix) ==
    [j \in 1..Len(matrix) |-> get_tag_names(reg)[argmax(matrix[j])]]

\* C13: set_annotations on a batch with one matrix for each document gives
\* every document i the spans decoded from the argmax tags of matrix i.
C13_AnnotationsFromArgmax ==
    (/\ last.op = "set_annotations"
     /\ labels # None
     /\ Len(scores) = Len(batch)
     /\ \A i \in 1..Len(batch) : Len(scores[i]) = batch[i].len) =>
        /\ outcome = "ok"
        /\ \A i \in 1..Len(batch) :
              doc_ents[i] = decode(predict_tags(Val(labels), scores[i]))

\* the gold tags of the batch that name a label the registry does not hold
UnknownGold ==
    {<<i, j>> \in (1..Len(batch)) \X (1..1) :
        /\ j <= Len(batch[i].ner)
        /\ batch[i].ner[j] # Str_O
        /\ batch[i].ner[j] \notin Range(get_tag_names(Val(labels)))}

\* C15: get_loss or update on a batch with a gold label that the registry
\* does not hold ends in an error, with no loss, no gradient computed or
\* passed backward, no finish_update and the accumulator unchanged.
C15_UnknownGoldLabelFatal ==
    (/\ last.op \in {"get_loss", "update"}
     /\ labels # None
     /\ UnknownGold # {}) =>
        /\ outcome # "ok"
        /\ ret = None
        /\ d_scores = None
        /\ grads = None
        /\ losses = prevLosses
        /\ \A i \in 1..Len(log) : log[i] # "finish_update"

\* the calls of an update that runs to its end
UpdateCalls(arg) ==
    <<"set_dropout_rate", "begin_update", "get_loss", "bp_scores">>
    \o (IF arg.set_annotations THEN <<"set_annotations">> ELSE <<>>)
    \o (IF arg.sgd THEN <<"finish_update">> ELSE <<>>)

Grown(entry, loss) == (IF entry = None THEN 0 ELSE Val(entry)) + loss

\* C18 as stated: every update call goes through begin_update, the loss
\* computation and exactly one backward call with the gradients, and the
\* accumulator entry grows by the returned loss.
C18_EveryUpdateCallOrdered ==
    last.op = "update" =>
        /\ IsPrefix(log, UpdateCalls(last.arg))
        /\ Cardinality({i \in 1..Len(log) : log[i] = "bp_scores"}) = 1
        /\ grads # None /\ grads = d_scores
        /\ last.arg.losses => (ret # None /\ losses = Some(Grown(prevLosses, Val(ret))))
        /\ labels = prevLabels

\* C18, amended: an update call makes its calls in the fixed order and stops
\* where one of them raises; backward is called, once and with the
\* gradients of get_loss, exactly when get_loss returned; a call that
\* returns has made every call asked for and grown the accumulator entry by
\* the returned loss; a call that raises returns nothing, has not called
\* finish_update and leaves the accumulator alone; the registry is kept.
C18_UpdateOrdered ==
    last.op = "update" =>
        /\ IsPrefix(log, UpdateCalls(last.arg))
        /\ Len(log) >= 3
        /\ (d_scores # None) <=> (Len(log) >= 4)
        /\ grads = d_scores
        /\ outcome = "ok" =>
              /\ log = UpdateCalls(last.arg)
              /\ ret # None
              /\ losses = IF last.arg.losses THEN Some(Grown(prevLosses, Val(ret)))
                          ELSE prevLosses
        /\ outcome # "ok" =>
              /\ ret = None
              /\ losses = prevLosses
              /\ \A i \in 1..Len(log) : log[i] # "finish_update"
        /\ labels = prevLabels

\* an update of a full batch with a document that has a token, with an
\* optimizer and an accumulator that already holds an entry, has returned a loss
C18_Witness ==
    /\ last.op = "update"
    /\ outcome = "ok"
    /\ Len(batch) = MaxBatch
    /\ \E i \in 1..Len(batch) : batch[i].len >= 1
    /\ last.arg.sgd /\ last.arg.losses
    /\ prevLosses # None /\ Val(prevLosses) > 0
    /\ ret # None /\ Val(ret) > 0
    /\ log[Len(log)] = "finish_update"

=============================================================================
